---- MODULE Spec2Model ----
(***************************************************************************)
(* A model of hello2/iSCAT_file_conversions.py: the conversions between    *)
(* folders of image files, .tdms containers (flattened channel data plus   *)
(* properties) and .mp containers (one shaped dataset).                    *)
(*                                                                         *)
(* The state is the file system the functions act on and the record of the *)
(* last call.  Every function of the script is one action; the image and   *)
(* container libraries it calls are modelled by what the calls return.     *)
(* A run is one of the pipelines of the script: one conversion or one      *)
(* inspection (read_tdms_properties) on a file system, or                  *)
(* convert_images_to_tdms followed by tdms_to_images, which reads back     *)
(* what the first has written.                                             *)
(*                                                                         *)
(* File names are sequences of one-character strings, so that sorting,     *)
(* regular-expression search, globbing and zero-padding are computed.      *)
(* A frame is a sequence of rows, a row a sequence of pixel values.        *)
(***************************************************************************)
EXTENDS Integers, Sequences, FiniteSets, TLC

VARIABLES
    dirs,      \* directory path -> [exists, files : file name -> frame]
    stacks,    \* stack file path -> the pages of a multi-frame .tiff file
    tdms,      \* .tdms path -> [state, root, groups]
    mp,        \* .mp path -> [state, datasets]
    last,      \* the last call: its arguments, outcome and return value
    origin,    \* history: .tdms path -> the images convert_images_to_tdms read for it
    handles    \* the paths of the files a call has left open

vars == <<dirs, stacks, tdms, mp, last, origin, handles>>

----------------------------------------------------------------------------
(* Bounds of the model *)

MaxFiles == 3     \* image files per source folder
MaxRows  == 2     \* rows of a frame
MaxCols  == 2     \* columns of a frame
MaxPages == 2     \* pages of a stack file
MaxData  == 4     \* length of the channel data of a container not written by the script
MaxFailAt == 2    \* the saves of one export that may fail: the first MaxFailAt
MaxGroups == 2    \* groups of a container to inspect
MaxChannels == 2  \* channels of a group of a container to inspect

(* Program constants *)

ZfillWidth == 5                     \* str(i).zfill(5)
numberAboveTotalFrames == 100000    \* slice(0, numberAboveTotalFrames)
Float32Bits == 24                   \* significand of numpy.float32

----------------------------------------------------------------------------
(* Strings *)

\* The characters used in file names, in code-point order.
Chars == << ".", "0", "1", "2", "3", "4", "5", "6", "7", "8", "9",
            "a", "d", "e", "f", "g", "i", "m", "n", "o", "p", "r", "s", "t", "v", "x" >>

Ord(c) == CHOOSE i \in 1..Len(Chars) : Chars[i] = c

\* Python's str comparison a < b: by code point, a proper prefix first.
RECURSIVE StrLess(_, _)
StrLess(a, b) ==
    IF b = <<>> THEN FALSE
    ELSE IF a = <<>> THEN TRUE
    ELSE IF Head(a) # Head(b) THEN Ord(Head(a)) < Ord(Head(b))
    ELSE StrLess(Tail(a), Tail(b))

Digits == << "0", "1", "2", "3", "4", "5", "6", "7", "8", "9" >>

\* str(i) for i >= 0
RECURSIVE Str(_)
Str(i) == IF i < 10 THEN << Digits[i + 1] >>
          ELSE Str(i \div 10) \o << Digits[(i % 10) + 1] >>

\* s.zfill(w): pad with '0' on the left up to width w; longer strings are kept.
RECURSIVE Zfill(_, _)
Zfill(s, w) == IF Len(s) >= w THEN s ELSE Zfill(<< "0" >> \o s, w)

\* re.search(pattern, s) is not None, for a pattern of literal characters and
\* '.', which matches any character; the match may start anywhere in s.
RegexSearch(pattern, s) ==
    \E k \in 0..(Len(s) - Len(pattern)) :
        \A j \in 1..Len(pattern) : pattern[j] = "." \/ pattern[j] = s[k + j]

\* glob: does name match core + '*' + extension
GlobMatch(core, extension, name) ==
    /\ Len(name) >= Len(core) + Len(extension)
    /\ SubSeq(name, 1, Len(core)) = core
    /\ SubSeq(name, Len(name) - Len(extension) + 1, Len(name)) = extension

\* sorted(names): ascending by StrLess (selection of the least remaining name).
RemoveAt(s, i) == SubSeq(s, 1, i - 1) \o SubSeq(s, i + 1, Len(s))

\* The list left as os.listdir returned it.
Unsorted(s) == s

RECURSIVE Sorted(_)
Sorted(s) ==
    IF s = <<>> THEN <<>>
    ELSE LET i == CHOOSE k \in 1..Len(s) :
                      /\ \A j \in 1..Len(s) : ~StrLess(s[j], s[k])
                      /\ \A j \in 1..(k - 1) : s[j] # s[k]
         IN  << s[i] >> \o Sorted(RemoveAt(s, i))

\* The orders in which a listing may enumerate a set of names.
RECURSIVE Listings(_)
Listings(S) ==
    IF S = {} THEN { << >> }
    ELSE UNION { { << x >> \o s : s \in Listings(S \ { x }) } : x \in S }

Range(s) == { s[i] : i \in DOMAIN s }

----------------------------------------------------------------------------
(* Numbers and arrays *)

\* numpy.float32(v) for an integer v >= 0: round to a 24-bit significand,
\* ties to even.
RECURSIVE UlpOf(_, _)
UlpOf(v, u) == IF v < (2 ^ Float32Bits) * u THEN u ELSE UlpOf(v, 2 * u)

ToFloat32(v) ==
    LET ulp == UlpOf(v, 1)
        q   == v \div ulp
        r   == v % ulp
    IN  IF 2 * r < ulp THEN q * ulp
        ELSE IF 2 * r > ulp THEN (q + 1) * ulp
        ELSE (IF q % 2 = 0 THEN q ELSE q + 1) * ulp

\* A property value: a Python float (num / den) or int.
PyFloat(num, den) == [t |-> "float", num |-> num, den |-> den]
PyInt(n) == [t |-> "int", num |-> n, den |-> 1]

\* float(n) of an int n; int(x) of a non-negative number x
FloatOf(n) == PyFloat(n, 1)
IntOf(x) == x.num \div x.den

Rows(frame) == Len(frame)
Cols(frame) == Len(frame[1])
Shape(frame) == << Rows(frame), Cols(frame) >>

\* frame.astype(float32)
FrameToFloat32(frame) ==
    [r \in 1..Rows(frame) |-> [c \in 1..Cols(frame) |-> ToFloat32(frame[r][c])]]

\* The elements of a frame in C (row-major) order.
RECURSIVE Concat(_)
Concat(ss) == IF ss = <<>> THEN <<>> ELSE Head(ss) \o Concat(Tail(ss))

FlattenFrame(frame) == Concat(frame)

\* numpy.reshape(images, (n,)) of an array of shape (N, R, C)
Flatten(images) == Concat([i \in 1..Len(images) |-> FlattenFrame(images[i])])

\* numpy.reshape(a, shape) raises ValueError unless the shape holds exactly
\* the size elements of a.
RECURSIVE Product(_)
Product(shape) == IF shape = << >> THEN 1 ELSE Head(shape) * Product(Tail(shape))

\* A reshape that never raises.
ReshapeAny(size, shape) == TRUE

ReshapeFits(size, shape) == Product(shape) = size

\* numpy.reshape(data, (n, y, x)) of a 1-d array of length n * y * x
Reshape3(data, n, y, x) ==
    [f \in 1..n |-> [r \in 1..y |-> [c \in 1..x |->
        data[(f - 1) * y * x + (r - 1) * x + c]]]]

----------------------------------------------------------------------------
(* The file system *)

Core == << "f", "r", "a", "m", "e" >>
Tif  == << ".", "t", "i", "f" >>
Tiff == << ".", "t", "i", "f", "f" >>
Png  == << ".", "p", "n", "g" >>

\* 'frame' + str(i).zfill(5) + image_file_extension
FrameName(i, extension) == Core \o Zfill(Str(i), ZfillWidth) \o extension

Event0  == << "e", "v", "e", "n", "t", "0", ".", "t", "d", "m", "s" >>
Event00 == << "e", "v", "e", "n", "t", "0", "0", ".", "t", "d", "m", "s" >>
Movie   == << "m", "o", "v", "i", "e", ".", "t", "d", "m", "s" >>
Event   == << "e", "v", "e", "n", "t" >>

\* s contains sub as a substring
Contains(s, sub) ==
    \E k \in 0..(Len(s) - Len(sub)) : SubSeq(s, k + 1, k + Len(sub)) = sub

DirPaths  == { "raw", "out" }
Destinations == { "out" }
TdmsPaths == { Event0, Event00, Movie }
Targets   == { Event00, Movie }
MpPaths   == { "movie.mp" }
StackPaths == { "stack.tif" }

Shapes == (1..MaxRows) \X (1..MaxCols)

\* A synthetic frame: every pixel of every frame of a folder has its own
\* value, so that a frame or a pixel out of place is a different array.
SynthFrame(base, k, shape) ==
    [r \in 1..shape[1] |-> [c \in 1..shape[2] |->
        base + k * (MaxRows * MaxCols) + (r - 1) * MaxCols + c]]

NoDir    == [exists |-> FALSE, files |-> << >>]
EmptyDir == [exists |-> TRUE, files |-> << >>]

\* The files of a folder: name -> frame
FolderOf(idx, extension, base, shapeOf) ==
    [exists |-> TRUE,
     files  |-> [n \in { FrameName(i, extension) : i \in idx } |->
                    LET i == CHOOSE k \in idx : FrameName(k, extension) = n
                    IN  SynthFrame(base, i, shapeOf[i])]]

\* Pixel values: small ones, and ones beyond the integers float32 holds exactly.
Bases == { 0, 2 ^ Float32Bits }

\* The shapes of n images: all of one shape, or one image, at any place, of
\* another shape than the rest.
ShapeMaps(n) ==
    { [i \in 0..(n - 1) |-> IF i = odd THEN other ELSE common] :
        common \in Shapes, other \in Shapes, odd \in 0..(n - 1) }

\* Folders of n <= MaxFiles images frame00000.tif, frame00001.tif, ...  The
\* large pixel values are drawn for folders of one shape only: the pixel
\* values of a folder of mixed shapes are never converted.
RawDirsOf(n) ==
    UNION { { FolderOf(0..(n - 1), Tif, b, sh) :
                b \in { c \in Bases : c = 0 \/ \A i, j \in 0..(n - 1) : sh[i] = sh[j] } } :
            sh \in ShapeMaps(n) }

RawDirs == { EmptyDir } \cup UNION { RawDirsOf(n) : n \in 1..MaxFiles }

\* Entries that are no image of the extension '.tif' but hold its letters: one
\* without the dot, and one that goes on after them.
Motif == << "m", "o", "t", "i", "f" >>
DecoyNames == { Motif, FrameName(1, Tiff) }

\* Folders of one image frame00000.tif and one such entry, both readable as
\* images of one shape.
DecoyDirs ==
    { [exists |-> TRUE,
       files  |-> (FrameName(0, Tif) :> SynthFrame(0, 0, << 1, 2 >>)) @@
                  (d :> SynthFrame(0, 1, << 1, 2 >>))] : d \in DecoyNames }

\* A folder left by an earlier export of a longer movie.
StaleDir == FolderOf({ MaxFiles }, Tiff, 0, [i \in { MaxFiles } |-> << 1, 1 >>])

(* .tdms containers: root properties, groups, channels with data and properties *)

AbsentFile  == [state |-> "absent", root |-> << >>, groups |-> << >>]
PartialFile == [state |-> "partial", root |-> << >>, groups |-> << >>]

PropertyKeys == { "Effective frame rate", "Exposure Time", "Bin frame size",
                  "Image size", "Image size 2", "Z position (um)", "Autofocus radius" }

Metadata(efr, et, bfs, z, afr) ==
    [effective_frame_rate |-> efr, exposure_time |-> et, bin_frame_size |-> bfs,
     z |-> z, af_radius |-> afr]

\* The default arguments of convert_images_to_tdms, and a call with five
\* different values.
DefaultMetadata == Metadata(PyFloat(201, 2), PyFloat(201, 2), PyInt(4), PyFloat(3, 2), PyInt(300))
OtherMetadata   == Metadata(PyFloat(25, 1), PyFloat(0, 1), PyInt(8), PyFloat(5, 2), PyFloat(150, 1))
MetaChoices == { DefaultMetadata, OtherMetadata }

TemplateRoot == ("name" :> "event0")

\* A container as the Oxford software writes it: group 'img', channel 'cam1'
\* with n values and the two image sizes among its properties.
OxfordFile(n, size, size2) ==
    [state  |-> "complete",
     root   |-> TemplateRoot,
     groups |-> << [name |-> "img", properties |-> << >>,
                    channels |-> << [name |-> "cam1",
                                     data |-> [i \in 1..n |-> i],
                                     properties |->
                                        [k \in PropertyKeys |->
                                            IF k = "Image size" THEN FloatOf(size)
                                            ELSE IF k = "Image size 2" THEN FloatOf(size2)
                                            ELSE PyFloat(0, 1)]] >>] >>]

TemplateFile == OxfordFile(4, 1, 2)

\* Containers to inspect: up to MaxGroups groups, each of up to MaxChannels
\* channels of one value and the seven properties.
GroupNames   == << "img", "ref", "aux", "log" >>
ChannelNames == << "cam1", "cam2", "cam3", "cam4" >>

InspectChannel(name) ==
    [name |-> name, data |-> << 1 >>,
     properties |-> [k \in PropertyKeys |->
                        IF k \in { "Image size", "Image size 2" } THEN FloatOf(1)
                        ELSE PyFloat(0, 1)]]

InspectFile(n, count) ==
    [state  |-> "complete",
     root   |-> TemplateRoot,
     groups |-> [g \in 1..n |->
                    [name |-> GroupNames[g], properties |-> << >>,
                     channels |-> [c \in 1..count[g] |-> InspectChannel(ChannelNames[c])]]]]

InspectFilesOf(n) == { InspectFile(n, count) : count \in [1..n -> 0..MaxChannels] }

InspectFiles == UNION { InspectFilesOf(n) : n \in 0..MaxGroups }

NoCall == [op |-> "none", outcome |-> "none"]

InitCommon ==
    /\ mp = [p \in MpPaths |-> [state |-> "absent", datasets |-> << >>]]
    /\ last = NoCall
    /\ origin = [p \in TdmsPaths |-> [known |-> FALSE, images |-> << >>]]
    /\ handles = {}

\* A folder of images to convert, beside a template container.
InitImages ==
    /\ \E raw \in RawDirs \cup DecoyDirs :
            dirs = [d \in DirPaths |-> IF d = "raw" THEN raw ELSE NoDir]
    /\ stacks = [p \in StackPaths |-> << SynthFrame(0, 0, << 1, 2 >>), SynthFrame(0, 1, << 1, 2 >>) >>]
    /\ tdms = [p \in TdmsPaths |-> IF p = Event0 THEN TemplateFile ELSE AbsentFile]

\* A container written by other software, to export.
InitContainer ==
    /\ \E out \in { NoDir, EmptyDir, StaleDir } :
            dirs = [d \in DirPaths |-> IF d = "raw" THEN EmptyDir ELSE out]
    /\ stacks = [p \in StackPaths |-> << SynthFrame(0, 0, << 1, 2 >>), SynthFrame(0, 1, << 1, 2 >>) >>]
    /\ \E n \in 0..MaxData, size \in 1..MaxRows, size2 \in 1..MaxCols :
            tdms = [p \in TdmsPaths |-> IF p = Event0 THEN OxfordFile(n, size, size2) ELSE AbsentFile]

\* A stack file to convert.
InitStack ==
    /\ dirs = [d \in DirPaths |-> IF d = "raw" THEN EmptyDir ELSE NoDir]
    /\ \E n \in 1..MaxPages, shape \in Shapes :
            stacks = [p \in StackPaths |-> [i \in 1..n |-> SynthFrame(0, i - 1, shape)]]
    /\ tdms = [p \in TdmsPaths |-> IF p = Event0 THEN TemplateFile ELSE AbsentFile]

\* A container of several groups, to inspect.
InitInspect ==
    /\ dirs = [d \in DirPaths |-> IF d = "raw" THEN EmptyDir ELSE NoDir]
    /\ stacks = [p \in StackPaths |-> << SynthFrame(0, 0, << 1, 2 >>), SynthFrame(0, 1, << 1, 2 >>) >>]
    /\ \E file \in InspectFiles :
            tdms = [p \in TdmsPaths |-> IF p = Event0 THEN file ELSE AbsentFile]

Init == InitCommon /\ (InitImages \/ InitContainer \/ InitStack \/ InitInspect)

----------------------------------------------------------------------------
(* convert_images_to_tdms *)

\* filenames = sorted([x for x in os.listdir(imagepath) if re.search(extension, x)])
Filenames(listing, extension) ==
    Sorted(SelectSeq(listing, LAMBDA x : RegexSearch(extension, x)))

\* for i in filenames: images.append(imageio.imread(imagepath + '/' + i))
LoadImages(dir, filenames) ==
    [i \in 1..Len(filenames) |-> dir.files[filenames[i]]]

\* An array built from the images whatever their shapes.
SameShapesUnchecked(images) == TRUE

\* numpy.array(images, dtype = numpy.float32) succeeds iff all images have one shape
SameShapes(images) ==
    \A i, j \in 1..Len(images) : Shape(images[i]) = Shape(images[j])

\* image set to a one-pixel frame before the loop.
ImageAfterLoopPreset(loaded) ==
    [bound |-> TRUE,
     value |-> IF loaded # << >> THEN loaded[Len(loaded)] ELSE << << 0 >> >>]

\* The variable image after the loop over filenames: bound to the last image
\* loaded, and unbound when the loop body never ran.
ImageAfterLoop(loaded) ==
    [bound |-> loaded # << >>,
     value |-> IF loaded # << >> THEN loaded[Len(loaded)] ELSE << >>]

\* The two image sizes under each other's key.
ChannelPropertiesSwapped(meta, xlength, ylength) ==
    ("Effective frame rate" :> meta.effective_frame_rate) @@
    ("Exposure Time" :> meta.exposure_time) @@
    ("Bin frame size" :> meta.bin_frame_size) @@
    ("Image size" :> ylength) @@
    ("Z position (um)" :> meta.z) @@
    ("Autofocus radius" :> meta.af_radius) @@
    ("Image size 2" :> xlength)

\* z and af_radius under each other's key.
ChannelPropertiesMixed(meta, xlength, ylength) ==
    ("Effective frame rate" :> meta.effective_frame_rate) @@
    ("Exposure Time" :> meta.exposure_time) @@
    ("Bin frame size" :> meta.bin_frame_size) @@
    ("Image size" :> xlength) @@
    ("Z position (um)" :> meta.af_radius) @@
    ("Autofocus radius" :> meta.z) @@
    ("Image size 2" :> ylength)

ChannelProperties(meta, xlength, ylength) ==
    ("Effective frame rate" :> meta.effective_frame_rate) @@
    ("Exposure Time" :> meta.exposure_time) @@
    ("Bin frame size" :> meta.bin_frame_size) @@
    ("Image size" :> xlength) @@
    ("Z position (um)" :> meta.z) @@
    ("Autofocus radius" :> meta.af_radius) @@
    ("Image size 2" :> ylength)

ChannelObject(group, channel, data, properties) ==
    [group |-> group, name |-> channel, data |-> data, properties |-> properties]

\* The file write_segment([root_object, group_object, channel_object]) leaves.
SegmentFile(root, groupName, ch) ==
    [state  |-> "complete",
     root   |-> root,
     groups |-> << [name |-> groupName, properties |-> << >>,
                    channels |-> << [name |-> ch.name, data |-> ch.data,
                                     properties |-> ch.properties] >>] >>]

Failed(exception) == [outcome |-> exception, written |-> FALSE, opened |-> FALSE]

\* The call on folder dir, enumerated as listing, with the template container
\* template; writeOk tells whether the file system accepts the segment.
\* Result: the outcome, when the target was opened for writing the file left
\* at the target, and whether the template was opened (it is never closed).
ConvertImagesToTdms(dir, listing, template, meta, extension, writeOk) ==
    IF ~dir.exists THEN Failed("FileNotFoundError")
    ELSE
    LET filenames == Filenames(listing, extension)
        number_of_frames == Len(filenames)
        loaded == LoadImages(dir, filenames)
    IN
    IF ~SameShapes(loaded) THEN Failed("ValueError")
    ELSE IF ~ImageAfterLoop(loaded).bound THEN Failed("UnboundLocalError")
    ELSE
    LET images == [i \in 1..number_of_frames |-> FrameToFloat32(loaded[i])]
        image == ImageAfterLoop(loaded).value
        xlength == FloatOf(Rows(image))
        ylength == FloatOf(Cols(image))
        data == Flatten(images)
    IN
    IF ~ReshapeFits(Len(data), << Rows(image) * Cols(image) * number_of_frames >>)
    THEN Failed("ValueError")
    ELSE IF template.state = "absent" THEN Failed("FileNotFoundError")
    ELSE IF template.state = "partial" THEN Failed("ValueError")
    ELSE
    LET channel_object ==
            ChannelObject("img", "cam1", data, ChannelProperties(meta, xlength, ylength))
    IN
    IF ~writeOk
    THEN [outcome |-> "OSError", written |-> TRUE, opened |-> TRUE, file |-> PartialFile]
    ELSE [outcome |-> "ok", written |-> TRUE, opened |-> TRUE,
          file |-> SegmentFile(template.root, "img", channel_object),
          filenames |-> filenames, loaded |-> loaded,
          ret |-> << channel_object, data, images >>]

\* The argument lists of the calls: the defaults, other metadata with a target
\* named without 'event', another extension, a template that may be missing.
ConvertArgs ==
    { [meta |-> DefaultMetadata, image_file_extension |-> Tif,
       target_file |-> Event00, tdms_template_file |-> Event0],
      [meta |-> OtherMetadata, image_file_extension |-> Tif,
       target_file |-> Movie, tdms_template_file |-> Event0],
      [meta |-> DefaultMetadata, image_file_extension |-> Png,
       target_file |-> Event00, tdms_template_file |-> Event0],
      [meta |-> DefaultMetadata, image_file_extension |-> Tif,
       target_file |-> Event00, tdms_template_file |-> Movie] }

\* No call was made yet.
FirstCall == last.op = "none"

\* The open handles after a call that may have opened path with
\* nptdms.TdmsFile.open(path) and has no close() and no with block for it: the
\* handle stays open, unless the interpreter has already collected the
\* object, which closes the file.
LeftOpen(open, path, opened, collected) ==
    IF opened /\ ~collected THEN open \cup { path } ELSE open

convert_images_to_tdms ==
    /\ FirstCall
    /\ \E imagepath \in DirPaths, args \in ConvertArgs, writeOk \in BOOLEAN,
          collected \in BOOLEAN :
       \E listing \in Listings(DOMAIN dirs[imagepath].files) :
          LET meta == args.meta
              image_file_extension == args.image_file_extension
              target_file == args.target_file
              res == ConvertImagesToTdms(dirs[imagepath], listing, tdms[args.tdms_template_file],
                                         meta, image_file_extension, writeOk)
          IN  /\ res.opened \/ collected
              /\ handles' = LeftOpen(handles, args.tdms_template_file, res.opened, collected)
              /\ tdms' = IF res.written THEN [tdms EXCEPT ![target_file] = res.file] ELSE tdms
              /\ origin' = IF res.outcome = "ok"
                           THEN [origin EXCEPT ![target_file] =
                                    [known |-> TRUE, images |-> res.loaded]]
                           ELSE IF res.written
                           THEN [origin EXCEPT ![target_file] = [known |-> FALSE, images |-> << >>]]
                           ELSE origin
              /\ last' = [op |-> "convert_images_to_tdms", outcome |-> res.outcome,
                          imagepath |-> imagepath, extension |-> image_file_extension,
                          meta |-> meta, target |-> target_file,
                          before |-> tdms[target_file],
                          filenames |-> IF res.outcome = "ok" THEN res.filenames ELSE << >>,
                          ret |-> IF res.outcome = "ok" THEN res.ret ELSE << >>]
    /\ UNCHANGED << dirs, stacks, mp >>

----------------------------------------------------------------------------
(* tdms_to_images *)

HasChannel(file, g, c) ==
    \E i \in 1..Len(file.groups) :
        /\ file.groups[i].name = g
        /\ \E j \in 1..Len(file.groups[i].channels) : file.groups[i].channels[j].name = c

\* f.object(g, c): its data and properties
GetChannel(file, g, c) ==
    LET i == CHOOSE k \in 1..Len(file.groups) : file.groups[k].name = g
        j == CHOOSE k \in 1..Len(file.groups[i].channels) : file.groups[i].channels[k].name = c
    IN  file.groups[i].channels[j]

\* The folder after frames 1..count of data were saved in it as
\* 'frame' + str(i).zfill(5) + extension, i counting from 0.
SaveFrames(dir, data, count, extension) ==
    LET new == { FrameName(i - 1, extension) : i \in 1..count }
    IN  [exists |-> TRUE,
         files  |-> [n \in (DOMAIN dir.files) \cup new |->
                        IF n \in new
                        THEN data[CHOOSE i \in 1..count : FrameName(i - 1, extension) = n]
                        ELSE dir.files[n]]]

\* if save: ... : the destination folder after the branch, and whether the
\* frames were all written.  answer is what the user types when asked;
\* failAt = k > 0 when saving the k-th frame fails, 0 when no save fails.
Prompted(dir) == dir.exists /\ DOMAIN dir.files # {}

\* What the user may type at the prompt.
Answers == { "y", "n", "Y", "yes" }

\* A test that takes every kind of yes.
ConfirmedLoosely(answer) == answer \in { "y", "Y", "yes" }

\* if answer == 'y'
Confirmed(answer) == answer = "y"

SaveBranch(dir, data, extension, answer, failAt) ==
    LET prompted == Prompted(dir)
        made == IF dir.exists THEN dir ELSE EmptyDir
        reply == IF prompted THEN answer ELSE "y"
    IN  IF ~Confirmed(reply)
        THEN [outcome |-> "ok", dir |-> made, prompted |-> prompted, saved |-> FALSE]
        ELSE IF failAt \in 1..Len(data)
        THEN [outcome |-> "OSError", dir |-> SaveFrames(made, data, failAt - 1, extension),
              prompted |-> prompted, saved |-> FALSE]
        ELSE [outcome |-> "ok", dir |-> SaveFrames(made, data, Len(data), extension),
              prompted |-> prompted, saved |-> TRUE]

\* The call on the container file and the destination folder dir.
TdmsToImages(file, dir, save, extension, answer, failAt) ==
    LET fail(e) == [outcome |-> e, dir |-> dir, prompted |-> FALSE, saved |-> FALSE, ret |-> << >>]
    IN
    IF file.state = "absent" THEN fail("FileNotFoundError")
    ELSE IF file.state = "partial" THEN fail("ValueError")
    ELSE IF ~HasChannel(file, "img", "cam1") THEN fail("KeyError")
    ELSE
    LET channel == GetChannel(file, "img", "cam1")
        data_raw == channel.data
        attributes == channel.properties
    IN
    IF ~({ "Image size", "Image size 2" } \subseteq DOMAIN attributes) THEN fail("KeyError")
    ELSE
    LET ylength == IntOf(attributes["Image size"])
        xlength == IntOf(attributes["Image size 2"])
    IN
    IF ylength * xlength = 0 THEN fail("ZeroDivisionError")
    ELSE
    LET number_of_frames == Len(data_raw) \div (ylength * xlength)
    IN
    IF ~ReshapeFits(Len(data_raw), << number_of_frames, ylength, xlength >>)
    THEN fail("ValueError")
    ELSE
    LET data == Reshape3(data_raw, number_of_frames, ylength, xlength)
    IN
    IF ~save
    THEN [outcome |-> "ok", dir |-> dir, prompted |-> FALSE, saved |-> FALSE, ret |-> data]
    ELSE LET b == SaveBranch(dir, data, extension, answer, failAt)
         IN  [outcome |-> b.outcome, dir |-> b.dir, prompted |-> b.prompted,
              saved |-> b.saved, ret |-> IF b.outcome = "ok" THEN data ELSE << >>]

\* The argument lists of the calls: the defaults, no saving, another extension.
ExportArgs ==
    { [save |-> TRUE, image_file_extension |-> Tiff],
      [save |-> FALSE, image_file_extension |-> Tiff],
      [save |-> TRUE, image_file_extension |-> Tif] }

\* convert_images_to_tdms returned.
ConvertOk == last.op = "convert_images_to_tdms" /\ last.outcome = "ok"

tdms_to_images ==
    /\ FirstCall \/ ConvertOk
    /\ \E tdms_filename \in TdmsPaths, destination \in Destinations, args \in ExportArgs,
          answer \in Answers, failAt \in 0..MaxFailAt :
          /\ (args.save /\ Prompted(dirs[destination])) \/ answer = "y"
          /\ (args.save /\ answer = "y") \/ failAt = 0
          /\ LET res == TdmsToImages(tdms[tdms_filename], dirs[destination], args.save,
                                     args.image_file_extension, answer, failAt)
             IN
              /\ failAt = 0 \/ res.outcome = "OSError"
              /\ dirs' = [dirs EXCEPT ![destination] = res.dir]
              /\ last' = [op |-> "tdms_to_images", outcome |-> res.outcome,
                          source |-> tdms_filename, destination |-> destination,
                          save |-> args.save, extension |-> args.image_file_extension,
                          answer |-> answer, prompted |-> res.prompted, saved |-> res.saved,
                          before |-> dirs[destination], ret |-> res.ret]
    /\ UNCHANGED << stacks, tdms, mp, origin, handles >>

----------------------------------------------------------------------------
(* tiff_to_mp, load_images, png_to_mp *)

\* A numpy array of two or three dimensions.
NdArray(shape, val) == [shape |-> shape, val |-> val]

\* numpy's stacking of N frames of one shape: shape (N, H, W)
StackFrames(frames) ==
    NdArray(<< Len(frames), Rows(frames[1]), Cols(frames[1]) >>, frames)

\* data[0] of an array of three dimensions
FirstItem(array) == NdArray(Tail(array.shape), array.val[1])

\* _file.asarray(key = slice(0, numberAboveTotalFrames)): the selected pages
\* stacked, and the page itself when only one is selected.
SliceAsArray(pages) ==
    LET selected == SubSeq(pages, 1, IF Len(pages) < numberAboveTotalFrames
                                     THEN Len(pages) ELSE numberAboveTotalFrames)
    IN  IF Len(selected) = 1
        THEN NdArray(Shape(selected[1]), selected[1])
        ELSE StackFrames(selected)

\* The files of a folder that match core + '*' + extension, in the order of
\* their names (the libraries sort the glob's result; on names with indices of
\* one width their natural order is the order of sorted()).
GlobFiles(dir, listing, core, extension) ==
    IF dir.exists
    THEN Sorted(SelectSeq(listing, LAMBDA x : GlobMatch(core, extension, x)))
    ELSE << >>

AbsentMp  == [state |-> "absent", datasets |-> << >>]
PartialMp == [state |-> "partial", datasets |-> << >>]

\* with h5py.File(mp_file, "w") as f: f.create_dataset("frame", data = data)
WriteMp(data, writeOk) ==
    IF writeOk
    THEN [outcome |-> "ok", written |-> TRUE, ret |-> data,
          file |-> [state |-> "complete", datasets |-> ("frame" :> data)]]
    ELSE [outcome |-> "OSError", written |-> TRUE, ret |-> << >>, file |-> PartialMp]

FailedMp(exception) == [outcome |-> exception, written |-> FALSE, ret |-> << >>]

None == << >>

\* tiff_to_mp with single_stack = True on the stack file holding pages
TiffStackToMp(pages, writeOk) == WriteMp(SliceAsArray(pages), writeOk)

\* tiff_to_mp with single_stack = False on the folder dir
TiffFolderToMp(dir, listing, filename_core, writeOk) ==
    IF filename_core = None THEN FailedMp("TypeError")
    ELSE
    LET files == GlobFiles(dir, listing, filename_core, Tif)
        frames == LoadImages(dir, files)
    IN  IF files = << >> THEN FailedMp("ValueError")
        ELSE IF ~SameShapes(frames) THEN FailedMp("ValueError")
        ELSE LET data == StackFrames(frames)
             IN  WriteMp(FirstItem(data), writeOk)

tiff_to_mp ==
    /\ FirstCall
    /\ \E mp_file \in MpPaths, single_stack \in BOOLEAN, writeOk \in BOOLEAN :
       \E tiff_location \in IF single_stack THEN StackPaths ELSE DirPaths,
          filename_core \in IF single_stack THEN { None } ELSE { None, Core } :
       \E listing \in IF single_stack THEN { << >> }
                      ELSE Listings(DOMAIN dirs[tiff_location].files) :
          LET res == IF single_stack
                     THEN TiffStackToMp(stacks[tiff_location], writeOk)
                     ELSE TiffFolderToMp(dirs[tiff_location], listing, filename_core, writeOk)
          IN  /\ mp' = IF res.written THEN [mp EXCEPT ![mp_file] = res.file] ELSE mp
              /\ last' = [op |-> "tiff_to_mp", outcome |-> res.outcome,
                          location |-> tiff_location, single_stack |-> single_stack,
                          target |-> mp_file, before |-> mp[mp_file], ret |-> res.ret]
    /\ UNCHANGED << dirs, stacks, tdms, origin, handles >>

\* load_images(image_location, 'frame', extension): the frames of the sequence
load_images(dir, listing, filename_core, extension) ==
    LoadImages(dir, GlobFiles(dir, listing, filename_core, extension))

PngToMp(dir, listing, extension, writeOk) ==
    LET images == load_images(dir, listing, Core, extension)
    IN  IF images = << >> THEN FailedMp("OSError")
        ELSE IF ~SameShapes(images) THEN FailedMp("ValueError")
        ELSE WriteMp(StackFrames(images), writeOk)

png_to_mp ==
    /\ FirstCall
    /\ \E image_location \in DirPaths, mp_location \in MpPaths,
          extension \in { Png, Tif }, writeOk \in BOOLEAN :
       \E listing \in Listings(DOMAIN dirs[image_location].files) :
          LET res == PngToMp(dirs[image_location], listing, extension, writeOk)
          IN  /\ mp' = IF res.written THEN [mp EXCEPT ![mp_location] = res.file] ELSE mp
              /\ last' = [op |-> "png_to_mp", outcome |-> res.outcome,
                          location |-> image_location, extension |-> extension,
                          target |-> mp_location, before |-> mp[mp_location],
                          ret |-> res.ret]
    /\ UNCHANGED << dirs, stacks, tdms, origin, handles >>

----------------------------------------------------------------------------
(* read_tdms_properties *)

\* tdms_file.groups(): the groups of the file, in file order
Groups(file) == [i \in 1..Len(file.groups) |-> file.groups[i].name]

\* tdms_file.group_channels(g): the channel objects of group g
GroupChannels(file, g) ==
    LET i == CHOOSE k \in 1..Len(file.groups) : file.groups[k].name = g
    IN  [j \in 1..Len(file.groups[i].channels) |->
            [group |-> g, name |-> file.groups[i].channels[j].name]]

\* for i in groups: channels.append(tdms_file.group_channels(i)): the list
\* channels after the loop.  It is made once, before the loop.
RECURSIVE ChannelsLoop(_, _, _)
ChannelsLoop(file, groups, channels) ==
    IF groups = << >> THEN channels
    ELSE ChannelsLoop(file, Tail(groups),
                      Append(channels, GroupChannels(file, Head(groups))))

\* properties_dict at the return: 'groups' and, for every group i, str(i)
\* bound to the list channels, one list object for all the keys.
PropertiesDict(file) ==
    LET groups == Groups(file)
        channels == ChannelsLoop(file, groups, << >>)
    IN  [k \in { "groups" } \cup Range(groups) |->
            IF k \in Range(groups) THEN channels ELSE groups]

\* The call on the container file.  The file is opened with
\* nptdms.TdmsFile.open and never closed.
ReadTdmsProperties(file) ==
    IF file.state = "absent"
    THEN [outcome |-> "FileNotFoundError", opened |-> FALSE, ret |-> << >>]
    ELSE IF file.state = "partial"
    THEN [outcome |-> "ValueError", opened |-> FALSE, ret |-> << >>]
    ELSE [outcome |-> "ok", opened |-> TRUE,
          ret |-> << file.root, PropertiesDict(file) >>]

read_tdms_properties ==
    /\ FirstCall
    /\ \E filename \in TdmsPaths, collected \in BOOLEAN :
          LET res == ReadTdmsProperties(tdms[filename])
          IN  /\ res.opened \/ collected
              /\ handles' = LeftOpen(handles, filename, res.opened, collected)
              /\ last' = [op |-> "read_tdms_properties", outcome |-> res.outcome,
                          source |-> filename, before |-> tdms[filename],
                          ret |-> res.ret]
    /\ UNCHANGED << dirs, stacks, tdms, mp, origin >>

Next ==
    \/ convert_images_to_tdms
    \/ tdms_to_images
    \/ tiff_to_mp
    \/ png_to_mp
    \/ read_tdms_properties

Spec == Init /\ [][Next]_vars

----------------------------------------------------------------------------
(* Properties *)

\* tdms_to_images returned the frames of a container that
\* convert_images_to_tdms wrote.
ReadBack ==
    /\ last.op = "tdms_to_images"
    /\ last.outcome = "ok"
    /\ origin[last.source].known

\* C1, as amended: reading back a container written from N frames of R rows
\* by C columns returns exactly N frames of R rows by C columns, and frame f,
\* row r, column c is the original pixel rounded to float32; it is the
\* original pixel itself whenever that is an integer up to 2^24.
C1_RoundTripFloat32 ==
    ReadBack =>
        LET original == origin[last.source].images
            ret == last.ret
        IN  /\ Len(ret) = Len(original)
            /\ \A f \in 1..Len(original) :
                /\ Rows(ret[f]) = Rows(original[f])
                /\ \A r \in 1..Rows(original[f]) :
                    /\ Len(ret[f][r]) = Cols(original[f])
                    /\ \A c \in 1..Cols(original[f]) :
                        /\ ret[f][r][c] = ToFloat32(original[f][r][c])
                        /\ original[f][r][c] <= 2 ^ Float32Bits
                              => ret[f][r][c] = original[f][r][c]

\* C1 as stated: the frames read back equal the original frames.
C1_RoundTripExact ==
    ReadBack => last.ret = origin[last.source].images

\* Two or more frames that are not square were written, read back, and came
\* back as they were.
C1_Witness ==
    /\ ReadBack
    /\ Len(last.ret) >= 2
    /\ Rows(last.ret[1]) # Cols(last.ret[1])
    /\ last.ret = origin[last.source].images

\* The names of the folder that convert_images_to_tdms selects.
Matching(dir, extension) == { n \in DOMAIN dir.files : RegexSearch(extension, n) }

\* C2: whatever the order of the directory listing, convert_images_to_tdms
\* loads the matching files in ascending order of their names: the list of
\* names is strictly ascending and holds every matching name, files with
\* zero-padded indices come in index order, image i is the file of the i-th
\* name, and the flattened array holds the images in that order.
C2_LoadedInNameOrder ==
    ConvertOk =>
        LET dir == dirs[last.imagepath]
            names == last.filenames
            data == last.ret[2]
            images == last.ret[3]
        IN  /\ Range(names) = Matching(dir, last.extension)
            /\ \A i, j \in 1..Len(names) : i < j => StrLess(names[i], names[j])
            /\ \A i, j \in 0..MaxFiles, p, q \in 1..Len(names) :
                (i < j /\ names[p] = FrameName(i, Tif) /\ names[q] = FrameName(j, Tif)) => p < q
            /\ Len(images) = Len(names)
            /\ \A i \in 1..Len(names) :
                /\ images[i] = FrameToFloat32(dir.files[names[i]])
                /\ \A r \in 1..Rows(images[i]), c \in 1..Cols(images[i]) :
                    data[(i - 1) * Rows(images[i]) * Cols(images[i])
                         + (r - 1) * Cols(images[i]) + c] = images[i][r][c]

\* A folder of MaxFiles files was converted.
C2_Witness ==
    /\ ConvertOk
    /\ Len(last.filenames) = MaxFiles
    /\ last.filenames[1] = FrameName(0, Tif)
    /\ last.filenames[MaxFiles] = FrameName(MaxFiles - 1, Tif)

\* tdms_to_images wrote all the frames it returned.
Exported ==
    /\ last.op = "tdms_to_images"
    /\ last.outcome = "ok"
    /\ last.saved

\* C3: after tdms_to_images wrote N frames, the destination holds them as
\* 'frame' + zero-padded index + extension, the names are in sequence order,
\* and loading the destination with the sorted-filename loader gives the same
\* N frames in the same order.
C3_ExportReloads ==
    Exported =>
        LET dir == dirs[last.destination]
            ret == last.ret
            name(i) == FrameName(i - 1, last.extension)
        IN  /\ \A i \in 1..Len(ret) :
                name(i) \in DOMAIN dir.files /\ dir.files[name(i)] = ret[i]
            /\ \A i, j \in 1..Len(ret) : i < j => StrLess(name(i), name(j))
            /\ \A listing \in Listings(DOMAIN dir.files) :
                LoadImages(dir, Filenames(listing, last.extension)) = ret

\* The channel 'cam1' of a readable container holds a number of values that
\* is no multiple of 'Image size' x 'Image size 2'.
LengthMismatch(file) ==
    /\ file.state = "complete"
    /\ HasChannel(file, "img", "cam1")
    /\ LET ch == GetChannel(file, "img", "cam1")
           y == IntOf(ch.properties["Image size"])
           x == IntOf(ch.properties["Image size 2"])
       IN  y * x > 0 /\ Len(ch.data) % (y * x) # 0

\* C4: tdms_to_images on channel data whose length is no whole number of
\* frames raises numpy's ValueError: it returns no frames and leaves the
\* destination as it was, not even created.
C4_LengthMismatchRejected ==
    (last.op = "tdms_to_images" /\ LengthMismatch(tdms[last.source])) =>
        /\ last.outcome = "ValueError"
        /\ last.ret = << >>
        /\ dirs[last.destination] = last.before

\* A call that was to save frames met data longer than a frame and no whole
\* number of frames.
C4_Witness ==
    /\ last.op = "tdms_to_images"
    /\ last.save
    /\ LengthMismatch(tdms[last.source])
    /\ LET ch == GetChannel(tdms[last.source], "img", "cam1")
       IN  Len(ch.data) > IntOf(ch.properties["Image size"])
                          * IntOf(ch.properties["Image size 2"])
    /\ last.outcome = "ValueError"
    /\ ~dirs[last.destination].exists

\* C5: convert_images_to_tdms on a folder with no file matching the extension
\* raises (UnboundLocalError, at the first use of the last image) before the
\* target is opened: the target is as it was and nothing is returned; and no
\* container on disk holds an empty channel.
C5_EmptyInputFails ==
    /\ (/\ last.op = "convert_images_to_tdms"
        /\ dirs[last.imagepath].exists
        /\ Matching(dirs[last.imagepath], last.extension) = {}) =>
            /\ last.outcome = "UnboundLocalError"
            /\ last.ret = << >>
            /\ tdms[last.target] = last.before
    /\ \A p \in Targets :
        tdms[p].state = "complete" => GetChannel(tdms[p], "img", "cam1").data # << >>

\* A folder that holds files, none with the extension, was given, and the
\* target does not exist after the call.
C5_Witness ==
    /\ last.op = "convert_images_to_tdms"
    /\ dirs[last.imagepath].exists
    /\ DOMAIN dirs[last.imagepath].files # {}
    /\ Matching(dirs[last.imagepath], last.extension) = {}
    /\ last.outcome = "UnboundLocalError"
    /\ tdms[last.target].state = "absent"

\* C6: convert_images_to_tdms on a folder whose matching images do not all
\* have one shape raises (numpy's ValueError), wherever the odd one is in the
\* sorted order, returns nothing and leaves the target as it was.
C6_ShapeMismatchFails ==
    (/\ last.op = "convert_images_to_tdms"
     /\ dirs[last.imagepath].exists
     /\ \E n, m \in Matching(dirs[last.imagepath], last.extension) :
            Shape(dirs[last.imagepath].files[n]) # Shape(dirs[last.imagepath].files[m])) =>
        /\ last.outcome = "ValueError"
        /\ last.ret = << >>
        /\ tdms[last.target] = last.before

\* The last image in sorted order alone has another shape, with as many
\* pixels as the others, so that its dimensions would fit the whole batch.
C6_Witness ==
    /\ last.op = "convert_images_to_tdms"
    /\ last.outcome = "ValueError"
    /\ dirs[last.imagepath].exists
    /\ LET files == dirs[last.imagepath].files
       IN  /\ DOMAIN files = { FrameName(i, Tif) : i \in 0..2 }
           /\ last.extension = Tif
           /\ Shape(files[FrameName(0, Tif)]) = Shape(files[FrameName(1, Tif)])
           /\ Shape(files[FrameName(2, Tif)]) # Shape(files[FrameName(0, Tif)])
           /\ Rows(files[FrameName(2, Tif)]) = Cols(files[FrameName(0, Tif)])
           /\ Cols(files[FrameName(2, Tif)]) = Rows(files[FrameName(0, Tif)])
    /\ tdms[last.target].state = "absent"

\* C7: every container convert_images_to_tdms writes has 'event' in its name.
C7_TargetNamedEvent ==
    ConvertOk => Contains(last.target, Event)

\* C8: the channel img/cam1 of the written container, and the channel object
\* returned, carry exactly the seven properties; each argument is under its
\* own key as it was given, and 'Image size' and 'Image size 2' are the row
\* count and the column count of every loaded image.
C8_MetadataFidelity ==
    ConvertOk =>
        /\ HasChannel(tdms[last.target], "img", "cam1")
        /\ LET props == GetChannel(tdms[last.target], "img", "cam1").properties
               dir == dirs[last.imagepath]
           IN  /\ DOMAIN props = PropertyKeys
               /\ Cardinality(DOMAIN props) = 7
               /\ props["Effective frame rate"] = last.meta.effective_frame_rate
               /\ props["Exposure Time"] = last.meta.exposure_time
               /\ props["Bin frame size"] = last.meta.bin_frame_size
               /\ props["Z position (um)"] = last.meta.z
               /\ props["Autofocus radius"] = last.meta.af_radius
               /\ \A i \in 1..Len(last.filenames) :
                    /\ props["Image size"] = PyFloat(Rows(dir.files[last.filenames[i]]), 1)
                    /\ props["Image size 2"] = PyFloat(Cols(dir.files[last.filenames[i]]), 1)
               /\ last.ret[1].properties = props

\* Five different values were given for images that are not square.
C8_Witness ==
    /\ ConvertOk
    /\ last.meta = OtherMetadata
    /\ Rows(last.ret[3][1]) # Cols(last.ret[3][1])
    /\ tdms[last.target].state = "complete"

MpOk == last.op \in { "tiff_to_mp", "png_to_mp" } /\ last.outcome = "ok"

\* The frames given to the last .mp conversion, in input order: the pages of
\* the stack, or the images of the folder in the order of their names.
MpInput ==
    IF last.op = "tiff_to_mp" /\ last.single_stack
    THEN stacks[last.location]
    ELSE LET dir == dirs[last.location]
             extension == IF last.op = "png_to_mp" THEN last.extension ELSE Tif
             names == { n \in DOMAIN dir.files : GlobMatch(Core, extension, n) }
             ordered == CHOOSE q \in Listings(names) :
                            \A i, j \in 1..Len(q) : i < j => StrLess(q[i], q[j])
         IN  [i \in 1..Len(ordered) |-> dir.files[ordered[i]]]

\* C9: the .mp file written from N frames of H rows by W columns holds one
\* dataset, 'frame', of shape (N, H, W), whose entry i is input frame i.
C9_ShapePreserved ==
    MpOk =>
        LET file == mp[last.target]
            frames == MpInput
        IN  /\ file.state = "complete"
            /\ DOMAIN file.datasets = { "frame" }
            /\ file.datasets["frame"].shape
                  = << Len(frames), Rows(frames[1]), Cols(frames[1]) >>
            /\ file.datasets["frame"].val = frames

\* C10: after a call that raised, the output of the call is as it was before
\* the call: no target cut short, no folder created, no part of the frames.
C10_AtomicFailure ==
    last.outcome \notin { "none", "ok" } =>
        CASE last.op = "convert_images_to_tdms" -> tdms[last.target] = last.before
          [] last.op = "tdms_to_images" -> dirs[last.destination] = last.before
          [] last.op = "read_tdms_properties" -> tdms[last.source] = last.before
          [] OTHER -> mp[last.target] = last.before

\* name.endswith(extension)
EndsWith(name, extension) ==
    /\ Len(name) >= Len(extension)
    /\ SubSeq(name, Len(name) - Len(extension) + 1, Len(name)) = extension

\* C11: convert_images_to_tdms loads exactly the entries of the source folder
\* whose name ends with image_file_extension: every such entry, and no entry
\* that holds the letters of the extension elsewhere or without the dot.
C11_SelectedByExtension ==
    ConvertOk =>
        Range(last.filenames)
            = { n \in DOMAIN dirs[last.imagepath].files : EndsWith(n, last.extension) }

\* C12: a call of tdms_to_images that returns has written the frame files if
\* and only if save is True and the destination did not exist, or was empty,
\* or was occupied and the answer was exactly 'y'.  When it has, the
\* destination exists and holds every returned frame under its name beside
\* the files it held; when it has not, the destination is as it was, not
\* created and no file added, changed or removed.  The frames returned are
\* the same in all cases: the channel data in the shape its properties give.
C12_WriteDecision ==
    (last.op = "tdms_to_images" /\ last.outcome = "ok") =>
        LET before == last.before
            dir == dirs[last.destination]
            ret == last.ret
            new == { FrameName(i - 1, last.extension) : i \in 1..Len(ret) }
            write == /\ last.save
                     /\ \/ ~before.exists
                        \/ DOMAIN before.files = {}
                        \/ last.answer = "y"
            ch == GetChannel(tdms[last.source], "img", "cam1")
            y == IntOf(ch.properties["Image size"])
            x == IntOf(ch.properties["Image size 2"])
        IN  /\ last.saved <=> write
            /\ write =>
                /\ dir.exists
                /\ DOMAIN dir.files = DOMAIN before.files \cup new
                /\ \A i \in 1..Len(ret) :
                        dir.files[FrameName(i - 1, last.extension)] = ret[i]
                /\ \A n \in DOMAIN before.files \ new : dir.files[n] = before.files[n]
            /\ ~write => dir = before
            /\ ret = Reshape3(ch.data, Len(ch.data) \div (y * x), y, x)

\* The destination was occupied and the user typed 'yes': frames were
\* returned and the destination is as it was.
C12_Witness ==
    /\ last.op = "tdms_to_images"
    /\ last.outcome = "ok"
    /\ last.save
    /\ DOMAIN last.before.files # {}
    /\ last.answer = "yes"
    /\ last.ret # << >>
    /\ dirs[last.destination] = last.before

\* C13: after any call, returned or raised, no file handle that the call
\* opened is still open.
C13_HandlesReleased ==
    last.op # "none" => handles = {}

\* read_tdms_properties returned.
ReadOk == last.op = "read_tdms_properties" /\ last.outcome = "ok"

\* The channels found in an entry of the structure dictionary, at any depth
\* of its lists.
ChannelsIn(entry) == UNION { Range(entry[i]) : i \in DOMAIN entry }

\* C14: the structure dictionary read_tdms_properties returns maps 'groups'
\* to the list of all groups of the container and each group's name to the
\* channels of that group, all of them and no channel of another group; the
\* container is as it was.
C14_ChannelsPerGroup ==
    ReadOk =>
        LET file == tdms[last.source]
            properties_dict == last.ret[2]
        IN  /\ properties_dict["groups"] = Groups(file)
            /\ \A g \in Range(Groups(file)) :
                    /\ g \in DOMAIN properties_dict
                    /\ ChannelsIn(properties_dict[g]) = Range(GroupChannels(file, g))
            /\ file = last.before

====
